---- MODULE Spec2Model ----
(***************************************************************************)
(* lib/net.ts: NetStream (one HTTP/S request as a read/write stream) and   *)
(* NetRequest (getStream / get / post), with the caller's option objects   *)
(* kept on a heap so that aliasing between calls is visible.               *)
(*                                                                         *)
(* Strings are sequences of one-character strings; "U+00E9" (e-acute) is   *)
(* one character of two UTF-8 bytes.  A JS object (PostData, headers) is a *)
(* sequence of <<key, value>> pairs with distinct keys, in insertion order.*)
(***************************************************************************)
EXTENDS Integers, Sequences, FiniteSets, TLC

\* ------------------------------------------------------------------ bounds
MaxChunks == 2      \* response chunks the transport delivers to one stream
MaxWrites == 2      \* _write calls made on one stream

\* ----------------------------------------------------------------- strings
RECURSIVE Concat(_)
Concat(ss) == IF ss = <<>> THEN <<>> ELSE Head(ss) \o Concat(Tail(ss))

Digits == <<"0", "1", "2", "3", "4", "5", "6", "7", "8", "9">>
IsDigit(c) == \E i \in 1..10 : Digits[i] = c
DigitVal(c) == (CHOOSE i \in 1..10 : Digits[i] = c) - 1

\* Characters encodeURIComponent leaves alone (of the ones used here).
Unreserved == {"a", "b", "k", "0", "1", "2", "3", "4", "5", "6", "7", "8", "9"}

\* UTF-8 bytes of one character, as the hex pairs encodeURIComponent prints.
Utf8Hex(c) ==
    CASE c = "&" -> << <<"2", "6">> >>
      [] c = "=" -> << <<"3", "D">> >>
      [] c = "?" -> << <<"3", "F">> >>
      [] c = " " -> << <<"2", "0">> >>
      [] c = "U+00E9" -> << <<"C", "3">>, <<"A", "9">> >>

encodeURIComponentChar(c) ==
    IF c \in Unreserved THEN <<c>>
    ELSE Concat([i \in 1..Len(Utf8Hex(c)) |-> <<"%">> \o Utf8Hex(c)[i]])

encodeURIComponent(s) == Concat([i \in 1..Len(s) |-> encodeURIComponentChar(s[i])])

\* Buffer.byteLength(body): the UTF-8 byte length, not the character count.
CharBytes(c) == IF c = "U+00E9" THEN 2 ELSE 1
RECURSIVE byteLength(_)
byteLength(s) == IF s = <<>> THEN 0 ELSE CharBytes(Head(s)) + byteLength(Tail(s))

\* -------------------------------------------------------------- JS objects
HasProp(obj, k) == \E i \in 1..Len(obj) : obj[i][1] = k
GetProp(obj, k) == obj[CHOOSE i \in 1..Len(obj) : obj[i][1] = k][2]
SetProp(obj, k, v) ==
    IF HasProp(obj, k)
    THEN [i \in 1..Len(obj) |-> IF obj[i][1] = k THEN <<k, v>> ELSE obj[i]]
    ELSE Append(obj, <<k, v>>)

\* A key that is a canonical array index ("0", "7", "12"; not "07", not "a1").
IsIndexKey(k) ==
    /\ k # <<>>
    /\ \A i \in 1..Len(k) : IsDigit(k[i])
    /\ (Len(k) > 1 => k[1] # "0")
RECURSIVE IndexVal(_)
IndexVal(k) == IF k = <<>> THEN 0
               ELSE 10 * IndexVal(SubSeq(k, 1, Len(k) - 1)) + DigitVal(k[Len(k)])

\* for (const key in data): index keys in ascending numeric order first, then
\* the other keys in insertion order.
RECURSIVE SortIdx(_, _)
SortIdx(obj, S) ==
    IF S = {} THEN <<>>
    ELSE LET m == CHOOSE i \in S : \A j \in S : IndexVal(obj[i][1]) <= IndexVal(obj[j][1])
         IN  <<m>> \o SortIdx(obj, S \ {m})
RECURSIVE InsertionOrder(_, _)
InsertionOrder(S, n) ==
    IF n = 0 THEN <<>>
    ELSE InsertionOrder(S, n - 1) \o (IF n \in S THEN <<n>> ELSE <<>>)
ForInOrder(obj) ==
    LET idx == {i \in 1..Len(obj) : IsIndexKey(obj[i][1])}
    IN  SortIdx(obj, idx) \o InsertionOrder((1..Len(obj)) \ idx, Len(obj))

encodeQuery(data) ==
    LET ord == ForInOrder(data)
    IN  Concat([n \in 1..Len(ord) |->
                  (IF n > 1 THEN <<"&">> ELSE <<>>)
                  \o data[ord[n]][1] \o <<"=">> \o encodeURIComponent(data[ord[n]][2])])

\* ------------------------------------------------------------------- state
VARIABLES
    noNetRequests,  \* Config.noNetRequests
    uri,            \* NetRequest.uri
    objs,           \* heap of option objects (NetRequestOptions), by reference
    hdrs,           \* heap of headers objects, by reference
    callerWrote,    \* history: the headers the caller itself wrote, if any
    streams,        \* the NetStream the caller holds: <<>> or <<stream>>
    calls           \* the call last made: <<>> or <<call>> (get/post: a coroutine)

vars == <<noNetRequests, uri, objs, hdrs, callerWrote, streams, calls>>

Null == 0                   \* statusCode: null
NullHeaders == "null"       \* headers: null
NoRef == 0                  \* an absent (undefined / null) object reference
OK == 200                   \* the one status get accepts

FormType == "application/x-www-form-urlencoded"

Undefined == [kind |-> "undefined", s |-> <<>>, m |-> <<>>]
Str(s) == [kind |-> "string", s |-> s, m |-> <<>>]
Obj(m) == [kind |-> "object", s |-> <<>>, m |-> m]

\* JS truthiness of a body / query value (string | PostData | undefined).
Truthy(v) == v.kind = "object" \/ (v.kind = "string" /\ v.s # <<>>)

EmptyOpts == [method |-> "", body |-> Undefined, query |-> Undefined,
              timeout |-> 0, headers |-> NoRef]

includes(s, c) == \E i \in 1..Len(s) : s[i] = c

\* url.parse(uri).protocol, then protocol.includes('https:') ? https : http
Protocol(u) == Head(u)
NetOf(u) == IF Protocol(u) = "https:" THEN "https" ELSE "http"

\* ------------------------------------------------- NetStream.makeRequest
\* The option normalisation of makeRequest works on n = [objs, hdrs, o, uri,
\* body]: the heap, the reference o of the options object, this.uri and the
\* local variable body (<<>> while it is undefined or '').

\* if (!opts.headers) opts.headers = {};
EnsureHeaders(n) ==
    IF n.objs[n.o].headers # NoRef THEN n
    ELSE [n EXCEPT !.hdrs = Append(@, <<>>), !.objs[n.o].headers = Len(n.hdrs) + 1]

\* if (!opts.headers[k]) opts.headers[k] = v;  falsy is the empty value of k.
DefaultHeader(n, k, v, falsy) ==
    LET m == EnsureHeaders(n)
        h == m.objs[m.o].headers
    IN  IF HasProp(m.hdrs[h], k) /\ GetProp(m.hdrs[h], k) # falsy THEN m
        ELSE [m EXCEPT !.hdrs[h] = SetProp(@, k, v)]

\* let body = opts.body; if (body && typeof body !== 'string') { ... }
EncodeBody(n) ==
    LET b == n.objs[n.o].body
    IN  IF b.kind = "object"
        THEN [DefaultHeader(n, "Content-Type", FormType, "") EXCEPT !.body = encodeQuery(b.m)]
        ELSE [n EXCEPT !.body = b.s]

\* if (opts.query) this.uri += (this.uri.includes('?') ? '&' : '?') + ...
AppendQuery(n) ==
    LET q == n.objs[n.o].query
    IN  IF Truthy(q)
        THEN [n EXCEPT !.uri = @ \o <<IF includes(@, "?") THEN "&" ELSE "?">>
                                 \o encodeQuery(q.m)]
        ELSE n

\* if (body) { ... opts.headers['Content-Length'] = Buffer.byteLength(body) }
ContentLength(n) ==
    IF n.body # <<>>
    THEN DefaultHeader(n, "Content-Length", byteLength(n.body), 0)
    ELSE n

\* if (!opts) opts = {}; then the three steps above.  opts is a reference into
\* O, or NoRef for null.
Normalize(u, opts, O, H) ==
    ContentLength(AppendQuery(EncodeBody(
        [objs |-> IF opts = NoRef THEN Append(O, EmptyOpts) ELSE O,
         hdrs |-> H,
         o |-> IF opts = NoRef THEN Len(O) + 1 ELSE opts,
         uri |-> u,
         body |-> <<>>])))

\* net.request(this.uri, opts, ...): what the transport is handed at dispatch.
Dispatch(n) ==
    LET o == n.objs[n.o]
    IN  [uri |-> n.uri,
         net |-> NetOf(n.uri),
         method |-> IF o.method = "" THEN "GET" ELSE o.method,
         headers |-> IF o.headers = NoRef THEN <<>> ELSE n.hdrs[o.headers],
         timeout |-> o.timeout,
         \* if (body) request.write(body)
         written |-> IF n.body # <<>> THEN <<n.body>> ELSE <<>>]

\* A timer armed whatever the options say.
TimerAlways(timeout) == "armed"
\* if (opts.timeout) request.setTimeout(opts.timeout, ...)
Timer(timeout) == IF timeout # 0 THEN "armed" ELSE "none"

PendingResponse == [state |-> "pending", statusCode |-> Null,
                    statusMessage |-> "", headers |-> NullHeaders]

\* new NetStream(uri, opts): the constructor with makeRequest, on heap <<O, H>>.
NetStream(u, opts, O, H) ==
    LET n == Normalize(u, opts, O, H)
    IN  [objs |-> n.objs, hdrs |-> n.hdrs,
         \* net.request(...) is called once, unconditionally (line 83)
         dispatched |-> 1,
         stream |->
           [uri |-> n.uri,
            opts |-> opts,
            statusCode |-> Null,
            headers |-> NullHeaders,
            response |-> PendingResponse,
            request |-> Dispatch(n),
            \* else this.nodeWritableStream = request
            nodeWritableStream |-> (n.body = <<>>),
            nodeReadableStream |-> FALSE,
            drainListeners |-> <<>>,
            \* ReadStream: the readable buffer
            buf |-> <<>>, atEOF |-> FALSE, eofs |-> 0, errorBuf |-> <<>>,
            \* if (opts.timeout) request.setTimeout(...)
            timer |-> Timer(n.objs[n.o].timeout),
            \* the transport's side of the request
            aborted |-> FALSE, errored |-> FALSE, ended |-> FALSE,
            paused |-> FALSE, needDrain |-> FALSE, drainHandlers |-> 0,
            emitted |-> <<>>,
            \* history: "early" / "late" when the consumer's last call of _pause /
            \* _read was a _pause, made before / after the response came
            pauseCall |-> "none",
            \* history of the writes made on the stream
            writes |-> <<>>, drains |-> 0,
            bodyGiven |-> IF opts = NoRef THEN FALSE ELSE O[opts].body.kind # "undefined"]]

\* ------------------------------------------------------------- NetRequest
\* A getStream that does not look at the flag.
DisabledNever == FALSE
\* if (Config.noNetRequests) throw ...: the flag as getStream reads it.
Disabled == noNetRequests

\* A post that falls back to opts.body only when no body was passed.
PostBodyIfUndefined(body, optsBody) == IF body.kind = "undefined" THEN optsBody ELSE body
\* if (!body) body = opts.body: the body post hands on to get.
PostBody(body, optsBody) == IF ~Truthy(body) THEN optsBody ELSE body

Result(type, code, msg, body) ==
    [type |-> type, statusCode |-> code, message |-> msg, body |-> body]

\* One call of kind "getStream", "get", "post" or "new" (new NetStream(uri, opts)
\* by the caller itself), up to its first suspension point.  a is the options
\* argument: NoRef when omitted, 1 for the caller's own object; pb is post's
\* positional body.  The stream of an earlier call is let go by the caller,
\* and the objects only it referred to with it; a call that throws leaves
\* nothing behind that anyone can reach.
Call(kind, a, pb) ==
    LET O0 == <<objs[1]>>
        H0 == IF objs[1].headers = NoRef THEN <<>> ELSE <<hdrs[1]>>
        src == IF a = NoRef THEN EmptyOpts ELSE O0[a]
        \* post: {...opts, method: 'POST', body}; otherwise the default {}
        fresh == IF kind = "post"
                 THEN [src EXCEPT !.method = "POST", !.body = PostBody(pb, src.body)]
                 ELSE src
        alloc == kind = "post" \/ (a = NoRef /\ kind # "new")
        O1 == IF alloc THEN Append(O0, fresh) ELSE O0
        o  == IF alloc THEN Len(O1) ELSE a
        c  == [kind |-> kind, arg |-> a, flag |-> noNetRequests,
               posBody |-> pb, optsBody |-> src.body, optsMethod |-> src.method,
               suspended |-> 0]
    IN  IF kind # "new" /\ Disabled
        THEN /\ calls' = <<c @@ [pc |-> "done", stream |-> 0,
                                  constructed |-> 0, dispatched |-> 0,
                                  result |-> Result("UsageError", Null,
                                                    "Net requests are disabled.", <<>>)]>>
             /\ UNCHANGED <<objs, hdrs, streams>>
        ELSE LET r == NetStream(uri, o, O1, H0)
             IN  /\ objs' = r.objs
                 /\ hdrs' = r.hdrs
                 /\ streams' = <<r.stream>>
                 /\ calls' = <<c @@ [constructed |-> 1, dispatched |-> r.dispatched]
                               @@ (IF kind \in {"get", "post"}
                                   THEN [pc |-> "awaitResponse", stream |-> 1,
                                         result |-> Result("pending", Null, "", <<>>)]
                                   ELSE [pc |-> "done", stream |-> 1,
                                         result |-> Result("stream", Null, "", <<>>)])>>

Args == {NoRef, 1}

getStream(a) ==
    /\ Call("getStream", a, Undefined)
    /\ UNCHANGED <<noNetRequests, uri, callerWrote>>

get(a) ==
    /\ Call("get", a, Undefined)
    /\ UNCHANGED <<noNetRequests, uri, callerWrote>>

post(a, pb) ==
    /\ Call("post", a, pb)
    /\ UNCHANGED <<noNetRequests, uri, callerWrote>>

Construct(a) ==
    /\ Call("new", a, Undefined)
    /\ UNCHANGED <<noNetRequests, uri, callerWrote>>

\* ------------------------------------------------------------ environment
\* The deployment sets or clears Config.noNetRequests.
SetNoNetRequests ==
    /\ noNetRequests' = ~noNetRequests
    /\ UNCHANGED <<uri, objs, hdrs, callerWrote, streams, calls>>

\* The caller gives its options object another body before it calls again.
CallerSetBody(b) ==
    /\ b # objs[1].body
    /\ objs' = [objs EXCEPT ![1].body = b]
    /\ UNCHANGED <<noNetRequests, uri, hdrs, callerWrote, streams, calls>>

\* ------------------------------------------------------------------ inputs
Key == <<"k">>
Bodies == {Undefined, Str(<<>>), Str(<<"a">>), Str(<<"U+00E9", "a">>),
           Obj(<<>>), Obj(<< <<Key, <<"a", "&">>>> >>)}
NextBodies == {Str(<<"a">>), Str(<<"U+00E9", "a">>)}
PostBodies == {Undefined, Str(<<>>), Str(<<"b">>), Obj(<< <<Key, <<"b">>>> >>)}
Queries == {Undefined, Obj(<< <<Key, <<"U+00E9">>>> >>)}
HeaderInputs == {<<>>, << <<"Content-Length", 7>> >>, << <<"Content-Type", "text/plain">> >>}
PlainURI == <<"http:", "//h/p">>
URIs == {PlainURI, <<"https:", "//h/p", "?", "a", "=", "1">>}

InitWith(bodies, queries, headers, timeouts, methods, uris) ==
    /\ noNetRequests \in BOOLEAN
    /\ uri \in uris
    /\ \E b \in bodies, q \in queries, t \in timeouts, m \in methods :
         \/ /\ objs = <<[method |-> m, body |-> b, query |-> q, timeout |-> t,
                         headers |-> NoRef]>>
            /\ hdrs = <<>>
            /\ callerWrote = <<>>
         \/ \E h \in headers :
              /\ objs = <<[method |-> m, body |-> b, query |-> q, timeout |-> t,
                           headers |-> 1]>>
              /\ hdrs = <<h>>
              /\ callerWrote = <<h>>
    /\ streams = <<>>
    /\ calls = <<>>

\* ------------------------------------------- calls and option normalisation
\* Every body against every headers object; a query against both kinds of
\* URI; a method and a timeout of the caller's own.
OptInit ==
    \/ InitWith(Bodies, {Undefined}, HeaderInputs, {0}, {""}, {PlainURI})
    \/ InitWith({Undefined, Str(<<"a">>)}, Queries \ {Undefined}, {}, {0}, {""}, URIs)
    \/ InitWith({Undefined, Str(<<"a">>)}, {Undefined}, {}, {1}, {"PUT"}, {PlainURI})

OptNext ==
    \/ \E a \in Args : getStream(a)
    \/ \E a \in Args : get(a)
    \/ \E a \in Args, pb \in PostBodies : post(a, pb)
    \/ \E a \in Args : Construct(a)
    \/ SetNoNetRequests
    \/ \E b \in NextBodies : CallerSetBody(b)

OptSpec == OptInit /\ [][OptNext]_vars

\* ------------------------------------------- encoding and header defaults
\* Mappings of up to two keys, index-like keys among them, in every insertion
\* order, with values that need encoding; header names in either letter case.
EncKeys == {Key, <<"b">>, <<"2">>, <<"1", "0">>}
EncValues == {<<"a", "&">>, <<"U+00E9", " ">>, <<"=">>}
Mappings ==
    {<<>>}
    \cup {<< <<k, v>> >> : k \in EncKeys, v \in EncValues}
    \cup {<< <<k[1], v[1]>>, <<k[2], v[2]>> >> :
             k \in {kk \in EncKeys \X EncKeys : kk[1] # kk[2]}, v \in EncValues \X EncValues}
EncBodies == {Obj(m) : m \in Mappings} \cup {Undefined, Str(<<"a">>)}
EncHeaders == {<<>>, << <<"Content-Type", "text/plain">> >>,
               << <<"content-type", "text/plain">> >>}

EncInit == InitWith(EncBodies, {Undefined}, EncHeaders, {0}, {""}, {PlainURI})

EncNext ==
    \/ \E a \in Args : getStream(a)
    \/ \E a \in Args : Construct(a)

EncSpec == EncInit /\ [][EncNext]_vars

\* ----------------------------------------------------- the stream's life
S == streams[1]
C == calls[1]
Live == streams # <<>>

\* ReadStream.push(data), push(null) and pushError(err) of the stream base.
push(st, data) == [st EXCEPT !.buf = Append(@, data)]
pushEnd(st) == [st EXCEPT !.atEOF = TRUE, !.eofs = @ + 1]
pushError(st, err) == [st EXCEPT !.errorBuf = Append(@, err)]

\* A continuation of get is ready to run: it runs before the next event.
Runnable ==
    /\ calls # <<>>
    /\ C.stream = 1
    /\ \/ C.pc = "awaitResponse" /\ S.response.state = "resolved"
       \/ C.pc = "awaitReadAll" /\ (S.errorBuf # <<>> \/ S.atEOF)

\* A response callback that resolves the promise and sets no statusCode.
OnResponseHandlerNoStatus(st, code, msg, h) ==
    [st EXCEPT !.nodeReadableStream = TRUE,
               !.response = [state |-> "resolved", statusCode |-> code,
                             statusMessage |-> msg, headers |-> h],
               !.headers = h]
\* The response callback of net.request (lines 83-96), fired once.
OnResponseHandler(st, code, msg, h) ==
    [st EXCEPT !.nodeReadableStream = TRUE,
               !.response = [state |-> "resolved", statusCode |-> code,
                             statusMessage |-> msg, headers |-> h],
               !.statusCode = IF code # 0 THEN code ELSE Null,
               !.headers = h]

OnResponse(code, msg, h) ==
    /\ Live /\ ~Runnable
    /\ S.response.state = "pending" /\ ~S.errored /\ ~S.aborted
    /\ streams' = <<OnResponseHandler(S, code, msg, h)>>
    /\ UNCHANGED <<noNetRequests, uri, objs, hdrs, callerWrote, calls>>

\* A data handler that is registered twice and pushes every chunk twice.
OnDataTwice(data) ==
    /\ Live /\ ~Runnable
    /\ S.nodeReadableStream /\ ~S.ended /\ ~S.errored /\ ~S.aborted /\ ~S.paused
    /\ Len(S.emitted) < MaxChunks
    /\ streams' = <<push(push([S EXCEPT !.emitted = Append(@, data)], data), data)>>
    /\ UNCHANGED <<noNetRequests, uri, objs, hdrs, callerWrote, calls>>
\* response.on('data', data => this.push(data))
OnData(data) ==
    /\ Live /\ ~Runnable
    /\ S.nodeReadableStream /\ ~S.ended /\ ~S.errored /\ ~S.aborted /\ ~S.paused
    /\ Len(S.emitted) < MaxChunks
    /\ streams' = <<push([S EXCEPT !.emitted = Append(@, data)], data)>>
    /\ UNCHANGED <<noNetRequests, uri, objs, hdrs, callerWrote, calls>>

\* response.on('end', () => this.push(null)); the transport ends a response
\* it has begun also after an error or an abort has cut it short.
OnEnd ==
    /\ Live /\ ~Runnable
    /\ S.nodeReadableStream /\ ~S.ended /\ ~S.paused
    /\ streams' = <<pushEnd([S EXCEPT !.ended = TRUE])>>
    /\ UNCHANGED <<noNetRequests, uri, objs, hdrs, callerWrote, calls>>

\* request.on('error', error => this.pushError(error)): a connection failure.
OnError(err) ==
    /\ Live /\ ~Runnable
    /\ ~S.errored /\ ~S.aborted /\ ~S.ended
    /\ streams' = <<pushError([S EXCEPT !.errored = TRUE], err)>>
    /\ UNCHANGED <<noNetRequests, uri, objs, hdrs, callerWrote, calls>>

\* request.setTimeout(opts.timeout, () => request.abort())
OnTimeout ==
    /\ Live /\ ~Runnable
    /\ S.timer = "armed" /\ ~S.errored /\ ~S.aborted /\ ~S.ended
    /\ streams' = <<[S EXCEPT !.timer = "fired", !.aborted = TRUE]>>
    /\ UNCHANGED <<noNetRequests, uri, objs, hdrs, callerWrote, calls>>

\* An abort before the response has come reaches the request's error handler
\* as "socket hang up".
OnAbortError ==
    /\ Live /\ ~Runnable
    /\ S.aborted /\ ~S.errored /\ S.response.state = "pending"
    /\ streams' = <<pushError([S EXCEPT !.errored = TRUE], "ECONNRESET")>>
    /\ UNCHANGED <<noNetRequests, uri, objs, hdrs, callerWrote, calls>>

\* The once('drain') handler of _write: every listener, then the list emptied.
RECURSIVE ResolveAll(_, _)
ResolveAll(ws, listeners) ==
    IF listeners = <<>> THEN ws
    ELSE ResolveAll([ws EXCEPT ![Head(listeners)].resolved = @ + 1,
                               ![Head(listeners)].order =
                                    1 + Cardinality({i \in 1..Len(ws) : ws[i].resolved > 0})],
                    Tail(listeners))
\* A handler that leaves the list as it was.
DrainHandlerKeepsList(st) ==
    [st EXCEPT !.writes = ResolveAll(@, st.drainListeners)]
DrainHandler(st) ==
    [st EXCEPT !.writes = ResolveAll(@, st.drainListeners),
               !.drainListeners = <<>>]

RECURSIVE Times(_, _)
Times(st, n) == IF n = 0 THEN st ELSE Times(DrainHandler(st), n - 1)

\* The request emits 'drain': the handlers registered with once() run and go.
OnDrain ==
    /\ Live /\ ~Runnable
    /\ S.needDrain /\ ~S.errored /\ ~S.aborted
    /\ streams' = <<[Times(S, S.drainHandlers) EXCEPT !.needDrain = FALSE,
                                                     !.drainHandlers = 0,
                                                     !.drains = @ + 1]>>
    /\ UNCHANGED <<noNetRequests, uri, objs, hdrs, callerWrote, calls>>

\* A _write that registers a drain handler with every refused write.
WriteAlwaysRegisters(st, data, ok) ==
    LET w == [data |-> data, ok |-> ok, result |-> "", resolved |-> 0, rejected |-> 0,
              order |-> 0, drain |-> st.drains]
    IN  IF ~st.nodeWritableStream
        THEN [st EXCEPT !.writes = Append(@, [w EXCEPT !.result = "UsageError"])]
        ELSE IF ok
        THEN [st EXCEPT !.request.written = Append(@, data),
                        !.writes = Append(@, [w EXCEPT !.result = "undefined"])]
        ELSE [st EXCEPT !.request.written = Append(@, data),
                        !.needDrain = TRUE,
                        !.drainHandlers = @ + 1,
                        !.drainListeners = Append(@, Len(st.writes) + 1),
                        !.writes = Append(@, [w EXCEPT !.result = "promise"])]
\* NetStream._write(data); ok is what the request's write() returns.
Write(st, data, ok) ==
    LET w == [data |-> data, ok |-> ok, result |-> "", resolved |-> 0, rejected |-> 0,
              order |-> 0, drain |-> st.drains]
    IN  IF ~st.nodeWritableStream
        THEN [st EXCEPT !.writes = Append(@, [w EXCEPT !.result = "UsageError"])]
        ELSE IF ok
        THEN [st EXCEPT !.request.written = Append(@, data),
                        !.writes = Append(@, [w EXCEPT !.result = "undefined"])]
        ELSE [st EXCEPT !.request.written = Append(@, data),
                        !.needDrain = TRUE,
                        !.drainHandlers = IF st.drainListeners = <<>> THEN @ + 1 ELSE @,
                        !.drainListeners = Append(@, Len(st.writes) + 1),
                        !.writes = Append(@, [w EXCEPT !.result = "promise"])]

\* The caller holds the stream (getStream, new NetStream) and writes to it.
HoldsStream == Live /\ calls # <<>> /\ C.stream = 1 /\ C.kind \in {"getStream", "new"}

_write(data) ==
    /\ HoldsStream /\ ~Runnable
    /\ ~S.errored /\ ~S.aborted
    /\ Len(S.writes) < MaxWrites
    /\ \E ok \in BOOLEAN :
         /\ S.needDrain => ~ok
         /\ streams' = <<Write(S, data, ok)>>
    /\ UNCHANGED <<noNetRequests, uri, objs, hdrs, callerWrote, calls>>

\* this.nodeReadableStream?.resume() / .pause(): with no response yet there
\* is no nodeReadableStream and the call does nothing.
Resume(st) == IF st.nodeReadableStream THEN [st EXCEPT !.paused = FALSE] ELSE st
\* A pause that never reaches the response.
PauseNoop(st) == st
Pause(st) == IF st.nodeReadableStream THEN [st EXCEPT !.paused = TRUE] ELSE st

_read ==
    /\ HoldsStream /\ ~Runnable
    /\ S.paused \/ S.pauseCall # "none"
    /\ streams' = <<[Resume(S) EXCEPT !.pauseCall = "none"]>>
    /\ UNCHANGED <<noNetRequests, uri, objs, hdrs, callerWrote, calls>>

_pause ==
    /\ HoldsStream /\ ~Runnable
    /\ S.pauseCall = "none" /\ ~S.ended
    /\ streams' = <<[Pause(S) EXCEPT !.pauseCall =
                                  IF S.nodeReadableStream THEN "late" ELSE "early"]>>
    /\ UNCHANGED <<noNetRequests, uri, objs, hdrs, callerWrote, calls>>

\* ------------------------------------------------- get, after its awaits
\* A get that accepts every 2xx status.
RefusedNon2xx(code) == code < 200 \/ code > 299
\* response.statusCode !== 200
Refused(code) == code # OK

\* new HttpError(response.statusMessage || "Connection error", statusCode, body)
HttpError(resp, body) ==
    Result("HttpError", resp.statusCode,
           IF resp.statusMessage # "" THEN resp.statusMessage ELSE "Connection error",
           body)

\* ReadStream.readAll() of the stream base, once it settles: the first error
\* pushed, else the whole buffer as text at end-of-stream.
readAllDone(st) == st.errorBuf # <<>> \/ st.atEOF
readAll(st) ==
    IF st.errorBuf # <<>>
    THEN Result("TransportError", Null, Head(st.errorBuf), <<>>)
    ELSE Result("text", Null, "", Concat(st.buf))

\* const response = await stream.response; then readAll() is begun.
GetAfterResponse ==
    /\ calls # <<>> /\ C.stream = 1 /\ Live
    /\ C.pc = "awaitResponse" /\ S.response.state = "resolved"
    /\ calls' = <<[C EXCEPT !.pc = "awaitReadAll", !.suspended = @ + 1]>>
    /\ UNCHANGED <<noNetRequests, uri, objs, hdrs, callerWrote, streams>>

\* readAll() has settled: get throws the transport error, throws HttpError
\* or returns the text.
GetResult(st) ==
    LET r == readAll(st)
    IN  IF r.type # "text" THEN r
        ELSE IF Refused(st.response.statusCode) THEN HttpError(st.response, r.body)
        ELSE r

\* A get that, when the transport failed, makes the request once more.
GetAfterReadAllRetry ==
    /\ calls # <<>> /\ C.stream = 1 /\ Live
    /\ C.pc = "awaitReadAll" /\ readAllDone(S)
    /\ IF GetResult(S).type = "TransportError" /\ C.constructed < 2
       THEN LET r == NetStream(uri, NoRef, objs, hdrs)
            IN  /\ streams' = <<r.stream>>
                /\ calls' = <<[C EXCEPT !.pc = "awaitResponse",
                                        !.constructed = @ + 1,
                                        !.dispatched = @ + r.dispatched]>>
       ELSE /\ calls' = <<[C EXCEPT !.pc = "done", !.suspended = @ + 1,
                                    !.result = GetResult(S)]>>
            /\ UNCHANGED streams
    /\ UNCHANGED <<noNetRequests, uri, objs, hdrs, callerWrote>>
\* get's last step: the awaited readAll() has settled.
GetAfterReadAll ==
    /\ calls # <<>> /\ C.stream = 1 /\ Live
    /\ C.pc = "awaitReadAll" /\ readAllDone(S)
    /\ calls' = <<[C EXCEPT !.pc = "done", !.suspended = @ + 1, !.result = GetResult(S)]>>
    /\ UNCHANGED <<noNetRequests, uri, objs, hdrs, callerWrote, streams>>

\* ------------------------------------------------------ the specification
Responses == {<<200, "OK">>, <<201, "Created">>, <<404, "Not Found">>, <<404, "">>}
ResponseHeaders == {"h"}
Chunks == {<<"O", "K">>, <<"!">>}
Errors == {"ECONNREFUSED"}
WriteData == {"w"}

Init == InitWith({Undefined, Str(<<>>), Str(<<"a">>), Obj(<<>>)}, {Undefined}, {},
                 {0, 1}, {""}, {PlainURI})

\* One stream is followed through its life: the calls come before it, and so
\* do the changes of the flag, which nothing reads once the stream exists.
Next ==
    \/ ~Live /\ \E a \in Args : getStream(a)
    \/ ~Live /\ \E a \in Args : get(a)
    \/ ~Live /\ \E a \in Args, pb \in {Undefined, Str(<<"b">>)} : post(a, pb)
    \/ ~Live /\ \E a \in Args : Construct(a)
    \/ ~Live /\ SetNoNetRequests
    \/ \E r \in Responses, h \in ResponseHeaders : OnResponse(r[1], r[2], h)
    \/ \E d \in Chunks : OnData(d)
    \/ OnEnd
    \/ \E e \in Errors : OnError(e)
    \/ OnTimeout
    \/ OnAbortError
    \/ OnDrain
    \/ \E d \in WriteData : _write(d)
    \/ _read
    \/ _pause
    \/ GetAfterResponse
    \/ GetAfterReadAll

Spec == Init /\ [][Next]_vars

\* The event loop runs a ready continuation, a timer that is due fires, and
\* an abort is delivered; the transport owes no response.
FairSpec ==
    /\ Spec
    /\ WF_vars(GetAfterResponse)
    /\ WF_vars(GetAfterReadAll)
    /\ WF_vars(OnTimeout)
    /\ WF_vars(OnAbortError)

\* ================================================================== claims
IsGet == calls # <<>> /\ C.kind \in {"get", "post"} /\ C.stream = 1
GetDone == IsGet /\ C.pc = "done"
Pending(st) == st.response.state = "pending"
Errored(st) == st.errorBuf # <<>>

\* C1: when get completes after the response metadata arrived, it returns
\* the text only for status 200 and then the text is everything the transport
\* delivered up to end-of-stream, in order; for any other status it raises
\* HttpError with that status, the status message (or "Connection error" when
\* it is empty) and the whole body, raised only after end-of-stream; it
\* completes in no other way unless the transport failed.
C1_GetStatusValidation ==
    GetDone =>
        /\ C.result.type \in {"text", "HttpError", "TransportError"}
        /\ C.result.type = "text" =>
              /\ S.response.state = "resolved" /\ S.response.statusCode = 200
              /\ S.ended /\ C.result.body = Concat(S.emitted)
        /\ C.result.type = "HttpError" =>
              /\ S.response.state = "resolved" /\ S.response.statusCode # 200
              /\ C.result.statusCode = S.response.statusCode
              /\ C.result.message = (IF S.response.statusMessage = ""
                                     THEN "Connection error"
                                     ELSE S.response.statusMessage)
              /\ S.ended /\ C.result.body = Concat(S.emitted)
        /\ C.result.type = "TransportError" => S.errored

C1_Witness ==
    /\ GetDone
    /\ C.result.type = "HttpError"
    /\ C.result.message = "Connection error"
    /\ C.result.statusCode = 404
    /\ C.result.body = <<"O", "K", "!">>

\* C2: once the transport has failed on the stream of a get or post call,
\* the call completes: it does not stay suspended for ever.
C2_TransportErrorReachesCaller == (IsGet /\ S.errored) ~> GetDone

\* C3: a getStream, get or post call made while Config.noNetRequests is set
\* fails at once with "Net requests are disabled.", before any suspension,
\* constructs no stream and leaves the stream in flight as it was; the flag is
\* read at each call, so a call made while it is clear constructs its stream.
C3_KillSwitch ==
    /\ [](calls # <<>> /\ C.kind # "new" =>
            /\ C.flag => /\ C.result.type = "UsageError"
                         /\ C.result.message = "Net requests are disabled."
                         /\ C.pc = "done" /\ C.suspended = 0 /\ C.stream = 0
            /\ ~C.flag => C.stream = 1 /\ streams # <<>>)
    /\ [][(calls' # calls /\ calls'[1].kind # "new" /\ noNetRequests)
            => streams' = streams /\ calls'[1].flag]_vars

C3_Witness ==
    /\ calls # <<>> /\ C.kind = "post" /\ C.flag /\ C.result.type = "UsageError"
    /\ streams # <<>> /\ ~noNetRequests

\* C4: the response promise of a stream resolves at most once and keeps its
\* value; while it is pending statusCode and headers are null and nothing has
\* been pushed to the readable side; from the step that resolves it on,
\* statusCode and headers are those of the response; once the request has
\* failed with the promise pending, it stays pending.
C4_ResponseDeferred ==
    /\ [](Live =>
            /\ Pending(S) => /\ S.statusCode = Null /\ S.headers = NullHeaders
                             /\ S.buf = <<>> /\ ~S.atEOF
            /\ ~Pending(S) => /\ S.statusCode = S.response.statusCode
                              /\ S.statusCode # Null
                              /\ S.headers = S.response.headers
                              /\ S.headers # NullHeaders)
    /\ [][(Live /\ Live') =>
            /\ ~Pending(S) => S'.response = S.response
            /\ (Pending(S) /\ Errored(S)) => Pending(S')]_vars

C4_Witness ==
    /\ Live /\ ~Pending(S) /\ S.statusCode = 201 /\ S.headers = "h"
    /\ S.buf = << <<"!">>, <<"O", "K">> >> /\ S.atEOF

\* A writer whose promise is still pending.
Pend(w) == w.result = "promise" /\ w.resolved = 0

\* C5: on a stream created without a body, a _write returns a promise exactly
\* when the request's write() reported a full buffer and returns at once
\* otherwise; a promise is resolved only by a drain event after the write;
\* each drain event resolves all the writers pending at that moment, in the
\* order they registered, each exactly once, and leaves none of them pending.
C5_WriteBackpressure ==
    (Live /\ S.nodeWritableStream) =>
        /\ \A i \in 1..Len(S.writes) :
             LET w == S.writes[i]
             IN  /\ w.result = (IF w.ok THEN "undefined" ELSE "promise")
                 /\ w.resolved <= 1
                 /\ w.result = "undefined" => w.resolved = 0
                 /\ w.resolved = 1 => S.drains > w.drain
                 /\ Pend(w) => S.drains = w.drain
        /\ \A i, j \in 1..Len(S.writes) :
             (i < j /\ S.writes[i].resolved = 1 /\ S.writes[j].resolved = 1)
                => S.writes[i].order < S.writes[j].order
        /\ S.drainListeners = InsertionOrder({i \in 1..Len(S.writes) : Pend(S.writes[i])},
                                             Len(S.writes))

C5_Witness ==
    /\ Live /\ Len(S.writes) >= 2
    /\ S.writes[1].result = "promise" /\ S.writes[2].result = "promise"
    /\ S.writes[1].resolved = 1 /\ S.writes[2].resolved = 1
    /\ S.drains = 1

\* C6: on a stream constructed with a body option (any non-null body), every
\* _write raises the usage error and forwards nothing to the request.
C6_BodyExcludesWrites ==
    (Live /\ S.bodyGiven) =>
        \A i \in 1..Len(S.writes) : S.writes[i].result = "UsageError"

\* C7: a timer is armed at construction exactly when a timeout is configured;
\* a request is aborted only by that timer; while the timer is armed the
\* stream gets its response or comes to Errored, and an abort with the
\* response still pending ends in Errored with the response never resolved.
C7_Timeout ==
    /\ [](Live => /\ (S.timer # "none") <=> (S.request.timeout # 0)
                  /\ S.aborted <=> (S.timer = "fired"))
    /\ [][(Live /\ Live' /\ S.aborted /\ Pending(S)) => Pending(S')]_vars
    /\ (Live /\ S.timer = "armed") ~> (Live /\ (Errored(S) \/ ~Pending(S)))
    /\ (Live /\ S.aborted /\ Pending(S)) ~> (Live /\ Errored(S) /\ Pending(S))

C7_Witness ==
    /\ Live /\ S.timer = "fired" /\ S.aborted
    /\ S.errorBuf = <<"ECONNRESET">> /\ Pending(S)

IsPost == calls # <<>> /\ C.kind = "post" /\ C.stream = 1
Payload(b) == IF b.kind = "object" THEN encodeQuery(b.m) ELSE b.s

\* C8 as stated: post sends the positional body whenever one was given, the
\* empty string included.
C8_PositionalBodyWins ==
    (IsPost /\ C.posBody.kind # "undefined") => objs[S.opts].body = C.posBody

\* C8 as amended: post always sends method POST; a positional body that is a
\* non-empty string or a mapping is the request body; with no positional body
\* or an empty string the body is options.body, and with that absent too the
\* request has no body.
C8_PostBodyPrecedence ==
    IsPost =>
        /\ S.request.method = "POST"
        /\ Truthy(C.posBody) => objs[S.opts].body = C.posBody
        /\ ~Truthy(C.posBody) => objs[S.opts].body = C.optsBody
        /\ S.request.written = (IF Payload(objs[S.opts].body) = <<>> THEN <<>>
                                ELSE <<Payload(objs[S.opts].body)>>)
        /\ (~Truthy(C.posBody) /\ C.optsBody.kind = "undefined") => S.request.written = <<>>

C8_Witness ==
    /\ IsPost /\ C.posBody = Str(<<>>) /\ C.optsBody = Str(<<"a">>)
    /\ C.optsMethod = "PUT" /\ S.request.method = "POST"
    /\ S.request.written = << <<"a">> >>

\* The call passed the caller's own options and these name a Content-Length.
CallerContentLength ==
    C.arg = 1 /\ callerWrote # <<>> /\ HasProp(callerWrote[1], "Content-Length")

\* C9: a request dispatched with a body payload carries as Content-Length the
\* byte length of its own payload, unless the caller supplied a Content-Length,
\* which is then sent as the caller wrote it.
C9_ContentLength ==
    (Live /\ calls # <<>> /\ C.stream = 1 /\ S.request.written # <<>>) =>
        /\ HasProp(S.request.headers, "Content-Length")
        /\ GetProp(S.request.headers, "Content-Length") =
              (IF CallerContentLength THEN GetProp(callerWrote[1], "Content-Length")
               ELSE byteLength(S.request.written[1]))

\* The caller's options object with its headers, as the caller sees them.
CallerView == <<objs[1], IF objs[1].headers = NoRef THEN <<>> ELSE <<hdrs[1]>> >>

\* C10: a call leaves the caller's options object and its headers as they were.
C10_OptionsUnchanged ==
    [][(calls' # calls \/ streams' # streams) => CallerView' = CallerView]_vars

\* C11: whatever the entry point (getStream, get, post or new NetStream), a
\* call made while the flag is set raises the usage error, constructs no
\* stream and dispatches no transport request.
C11_KillSwitchEveryPath ==
    (calls # <<>> /\ C.flag) =>
        /\ C.result.type = "UsageError"
        /\ C.constructed = 0 /\ C.dispatched = 0 /\ C.stream = 0

\* Closed (end-of-stream pushed) or Errored (an error pushed).
Terminal(st) == st.atEOF \/ Errored(st)

\* C12: once a stream is Closed or Errored no transport event pushes data,
\* end-of-stream or an error to it, and the timer neither fires nor aborts the
\* request; end-of-stream is pushed only on a stream that has its response.
C12_TerminalStates ==
    [][(Live /\ Live') =>
         /\ Terminal(S) => /\ S'.buf = S.buf /\ S'.atEOF = S.atEOF /\ S'.eofs = S.eofs
                           /\ S'.errorBuf = S.errorBuf
                           /\ S'.aborted = S.aborted /\ S'.timer = S.timer
         /\ (S'.atEOF /\ ~S.atEOF) => ~Pending(S)]_vars

\* C13: writers that are pending when the request is aborted or fails do not
\* stay pending: the stream comes to Errored and each of their promises is
\* settled with a failure.
C13_PendingWritesFail ==
    (Live /\ (S.errored \/ S.aborted) /\ \E i \in 1..Len(S.writes) : Pend(S.writes[i]))
        ~> (Live /\ Errored(S)
                 /\ \A i \in 1..Len(S.writes) :
                      S.writes[i].result = "promise" =>
                          S.writes[i].resolved + S.writes[i].rejected = 1)

IsPrefix(a, b) == Len(a) <= Len(b) /\ a = SubSeq(b, 1, Len(a))

\* C14: the chunks pushed to the readable buffer are a prefix of the chunks
\* the transport delivered, in the same order, none dropped or doubled; the
\* end-of-stream is pushed at most once, only once the transport has reported
\* completion and every delivered chunk has been pushed, and no chunk follows.
C14_ReadableOrder ==
    /\ [](Live => /\ IsPrefix(S.buf, S.emitted)
                  /\ S.eofs = (IF S.ended THEN 1 ELSE 0)
                  /\ S.atEOF <=> S.ended
                  /\ S.atEOF => S.buf = S.emitted)
    /\ [][(Live /\ Live' /\ S.atEOF) => (S'.buf = S.buf /\ S'.eofs = S.eofs)]_vars

C14_Witness ==
    /\ Live /\ S.eofs = 1 /\ S.atEOF
    /\ S.emitted = << <<"O", "K">>, <<"!">> >> /\ S.buf = S.emitted

\* The body option of the call as makeRequest receives it.
BodyOption == IF C.kind = "post" THEN PostBody(C.posBody, C.optsBody) ELSE C.optsBody

\* C15: a request whose body option is non-null carries a Content-Length
\* header, and for the empty string with no Content-Length of the caller's
\* the header is Content-Length: 0.
C15_ZeroLengthBody ==
    (Live /\ calls # <<>> /\ C.stream = 1 /\ BodyOption.kind # "undefined") =>
        /\ HasProp(S.request.headers, "Content-Length")
        /\ (BodyOption = Str(<<>>) /\ ~CallerContentLength) =>
              GetProp(S.request.headers, "Content-Length") = 0

\* C18: every construction of a stream dispatches exactly one transport
\* request, at once; the requests dispatched are as many as the streams
\* constructed, and a get or post call constructs at most one stream, also
\* when it ends in a transport error or an HttpError.  (The calls come while
\* no stream exists, so the counts of the last call are those of the run.)
C18_OneRequestPerStream ==
    /\ calls # <<>> => /\ C.dispatched = C.constructed
                       /\ C.constructed <= 1
                       /\ C.constructed = 1 <=> C.stream = 1
    /\ Live <=> (calls # <<>> /\ C.constructed = 1)
    /\ Live => S.request.uri = S.uri

C18_Witness ==
    /\ GetDone /\ C.result.type = "TransportError"
    /\ C.constructed = 1 /\ C.dispatched = 1 /\ S.errored

\* C19 as stated: at every moment of the stream's life, while the consumer's
\* last call of _pause / _read is a _pause, no chunk is pushed to the buffer.
C19_PauseHoldsChunks ==
    [][(Live /\ Live' /\ S.pauseCall # "none") => S'.buf = S.buf]_vars

\* C19 as amended: once the response has come, _pause pauses it and _read
\* resumes it, and while the consumer's last call is a _pause made after the
\* response came no chunk is pushed until the next _read; a _pause or _read
\* made before the response has come does nothing.
C19_ReadBackpressure ==
    /\ [](Live => /\ S.pauseCall = "late" => S.paused
                  /\ S.pauseCall = "none" => ~S.paused
                  /\ S.pauseCall = "early" => ~S.paused
                  /\ S.paused => S.nodeReadableStream)
    /\ [][(Live /\ Live' /\ S.pauseCall = "late") => S'.buf = S.buf]_vars

C19_Witness ==
    /\ Live /\ S.pauseCall = "late" /\ S.paused
    /\ S.buf = << <<"!">> >> /\ ~S.ended /\ ~S.errored

\* C20: a one-shot drain handler is registered on the request exactly while
\* drainListeners is not empty, and never more than one; every pending writer
\* is in the list once, so the handler covers it and a drain event calls its
\* resolver once.
C20_DrainHandlerRegistration ==
    Live =>
        /\ S.drainHandlers = (IF S.drainListeners # <<>> THEN 1 ELSE 0)
        /\ \A i \in 1..Len(S.writes) :
             /\ Pend(S.writes[i]) =>
                   Cardinality({j \in 1..Len(S.drainListeners) : S.drainListeners[j] = i}) = 1
             /\ S.writes[i].resolved <= 1
        /\ \A j \in 1..Len(S.drainListeners) : Pend(S.writes[S.drainListeners[j]])

C20_Witness ==
    /\ Live /\ S.drains = 1 /\ Len(S.writes) = 2
    /\ S.writes[1].resolved = 1 /\ Pend(S.writes[2])
    /\ S.drainListeners = <<2>> /\ S.drainHandlers = 1

\* Reading a query string back: the pairs between "&", key and value either
\* side of the first "=", the value decoded.
Encoded == {"&", "=", "?", " ", "U+00E9"}
StartsWith(s, p) == Len(p) <= Len(s) /\ SubSeq(s, 1, Len(p)) = p
RECURSIVE Decode(_)
Decode(s) ==
    IF s = <<>> THEN <<>>
    ELSE IF Head(s) # "%" THEN <<Head(s)>> \o Decode(Tail(s))
    ELSE LET c == CHOOSE c \in Encoded : StartsWith(s, encodeURIComponentChar(c))
         IN  <<c>> \o Decode(SubSeq(s, Len(encodeURIComponentChar(c)) + 1, Len(s)))
First(s, sep) == CHOOSE i \in 1..Len(s) : s[i] = sep /\ \A j \in 1..(i - 1) : s[j] # sep
RECURSIVE Split(_, _)
Split(s, sep) ==
    IF ~includes(s, sep) THEN <<s>>
    ELSE <<SubSeq(s, 1, First(s, sep) - 1)>> \o Split(SubSeq(s, First(s, sep) + 1, Len(s)), sep)
ParsePair(p) == <<SubSeq(p, 1, First(p, "=") - 1), Decode(SubSeq(p, First(p, "=") + 1, Len(p)))>>
ParseQuery(s) ==
    IF s = <<>> THEN <<>>
    ELSE [n \in 1..Len(Split(s, "&")) |-> ParsePair(Split(s, "&")[n])]

\* The pairs of a mapping written out in its insertion order.
RECURSIVE InOrder(_)
InOrder(m) ==
    IF m = <<>> THEN <<>>
    ELSE Head(m)[1] \o <<"=">> \o encodeURIComponent(Head(m)[2])
         \o (IF Len(m) > 1 THEN <<"&">> ELSE <<>>) \o InOrder(Tail(m))

\* C16: a mapping given as body is sent as its key=value pairs joined by "&",
\* keys as they are and values URI-component-encoded, in the insertion order of
\* the mapping whatever the keys are; read back, the payload gives the pairs
\* of the mapping in that order.
C16_EncodeQueryOrder ==
    (Live /\ calls # <<>> /\ C.stream = 1 /\ C.optsBody.kind = "object") =>
        /\ encodeQuery(C.optsBody.m) = InOrder(C.optsBody.m)
        /\ Concat(S.request.written) = InOrder(C.optsBody.m)
        /\ ParseQuery(Concat(S.request.written)) = C.optsBody.m

\* Header names compared without regard to letter case.
Lower(k) == CASE k = "Content-Type" -> "content-type"
              [] k = "Content-Length" -> "content-length"
              [] OTHER -> k
CountHeader(h, name) == Cardinality({i \in 1..Len(h) : Lower(h[i][1]) = name})
CallerHeaders == IF C.arg = 1 /\ callerWrote # <<>> THEN callerWrote[1] ELSE <<>>

\* C17: with a Content-Type of the caller's, in whatever letter case, the
\* request carries that header and no second Content-Type; with none, the
\* request carries Content-Type: application/x-www-form-urlencoded exactly
\* when its body is a non-empty mapping; a string body gets no default.
C17_ContentTypeDefault ==
    (Live /\ calls # <<>> /\ C.stream = 1) =>
        LET h == S.request.headers
            mine == {i \in 1..Len(CallerHeaders) : Lower(CallerHeaders[i][1]) = "content-type"}
        IN  /\ CountHeader(h, "content-type") <= 1
            /\ \A i \in mine : \E j \in 1..Len(h) : h[j] = CallerHeaders[i]
            /\ mine = {} =>
                 /\ CountHeader(h, "content-type") = 1
                      <=> (C.optsBody.kind = "object" /\ C.optsBody.m # <<>>)
                 /\ CountHeader(h, "content-type") = 1 =>
                      (HasProp(h, "Content-Type") /\ GetProp(h, "Content-Type") = FormType)

====
